---- MODULE Spec2Model ----
(***************************************************************************)
(* Primal / dual formulation of the armament procurement problem           *)
(* (Resolution/question.py, optimisation_militaire/generalisation.py) and  *)
(* the sensitivity sweeps of the two application scripts.                  *)
(*                                                                         *)
(* Numbers are exact rationals [n |-> numerator, d |-> denominator > 0] in *)
(* lowest terms.  The LP routine is modelled by what it computes: the set  *)
(* of optimal basic solutions of  min c.x  s.t.  A_ub.x <= b_ub, x >= 0,   *)
(* or a failure when the problem is infeasible or unbounded.               *)
(***************************************************************************)
EXTENDS Integers, Sequences, FiniteSets

VARIABLES variant, heap, constraints, requirements, base,
          primal, dual, lots, cost_total, prices, profit,
          out, pc, price_idx, cost_totals, profit_totals, raised,
          n_constraints, armes, data, ask, shown

vars == <<variant, heap, constraints, requirements, base,
          primal, dual, lots, cost_total, prices, profit,
          out, pc, price_idx, cost_totals, profit_totals, raised,
          n_constraints, armes, data, ask, shown>>

(***************************************************************************)
(* Bounds of the explored input space.                                     *)
(***************************************************************************)
MaxVal == 1

Vals == 0..MaxVal

\* input lines of the data-entry script: their length, the characters typed,
\* the number of weapon types asked for, and the error messages one run prints
MaxLineLen == 3

Digits == {"2"}

Chars == {" ", "a"} \cup Digits

Lines == UNION {[1..k -> Chars] : k \in 0..MaxLineLen}

Names == {<<"a">>, <<"a", "1">>}

MaxTypes == 2

MaxErrors == 1

\* the highest price of lot 1 among the scenario-1 bundles
MaxLot1Price == 29

\* <<number of lots, number of weapon types>> of the explored bundles; the
\* sweeps, thirty solves long, leave out the largest shape
Shapes == {<<1, 1>>, <<2, 1>>, <<1, 2>>, <<2, 2>>}
SweepShapes == {<<1, 1>>, <<2, 1>>, <<1, 2>>}

\* <<len(costs), rows, columns, len(requirements)>>: two consistent shapes
\* and the four ways one length can be off
MismatchShapes == {<<1, 1, 1, 1>>, <<1, 2, 1, 2>>,
                   <<2, 1, 1, 1>>, <<1, 1, 2, 1>>, <<1, 2, 1, 1>>, <<1, 1, 1, 2>>}

\* three consistent shapes with lots, and the bundles without any lot: one
\* or two weapon types (rows of length zero), and the all-empty bundle
EmptyShapes == {<<1, 1, 1, 1>>, <<2, 1, 2, 1>>, <<1, 2, 1, 2>>,
                <<0, 1, 0, 1>>, <<0, 2, 0, 2>>, <<0, 0, 0, 0>>}

(***************************************************************************)
(* Python's None and an optional value.                                    *)
(***************************************************************************)
None == <<>>
Some(v) == <<v>>
Val(o) == o[1]

(***************************************************************************)
(* Integer helpers.                                                        *)
(***************************************************************************)
Abs(a) == IF a < 0 THEN -a ELSE a

RECURSIVE Pow10(_)
Pow10(k) == IF k = 0 THEN 1 ELSE 10 * Pow10(k - 1)

gcd[a \in Nat, b \in Nat] == IF b = 0 THEN a ELSE gcd[b, a % b]
Gcd(a, b) == gcd[a, b]

RECURSIVE GcdTo(_, _, _)
GcdTo(s, k, g) == IF k = 0 THEN g ELSE GcdTo(s, k - 1, Gcd(Abs(s[k]), g))

GcdSeq(s, g) == GcdTo(s, Len(s), g)

RECURSIVE SumTo(_, _)
SumTo(s, k) == IF k = 0 THEN 0 ELSE s[k] + SumTo(s, k - 1)

\* the sequence is evaluated once, then summed
SumSeq(s) == CHOOSE r \in {SumTo(t, Len(t)) : t \in {s}} : TRUE

IDot(u, v) == SumSeq([j \in 1..Len(u) |-> u[j] * v[j]])

(***************************************************************************)
(* Exact rationals.                                                        *)
(***************************************************************************)
Rat(num, den) ==
    LET s == IF den < 0 THEN -1 ELSE 1
        g == Gcd(Abs(num), Abs(den))
    IN  [n |-> (s * num) \div g, d |-> (s * den) \div g]

RInt(k) == [n |-> k, d |-> 1]
RZero == RInt(0)
RNeg(a) == [n |-> -a.n, d |-> a.d]
RAdd(a, b) == Rat(a.n * b.d + b.n * a.d, a.d * b.d)
RMul(a, b) == Rat(a.n * b.n, a.d * b.d)
RLe(a, b) == a.n * b.d <= b.n * a.d
RLt(a, b) == a.n * b.d < b.n * a.d

RECURSIVE RSum(_)
RSum(s) == IF Len(s) = 0 THEN RZero ELSE RAdd(Head(s), RSum(Tail(s)))

\* the first k decimals of r/d, for 0 <= r < d, as an integer
RECURSIVE Decimals(_, _, _)
Decimals(r, d, k) ==
    IF k = 0 THEN 0
    ELSE ((10 * r) \div d) * Pow10(k - 1) + Decimals((10 * r) % d, d, k - 1)

\* a >= 0 rounded to k decimals, counted in units of 10^-k
RoundTo(a, k) ==
    ((a.n \div a.d) * Pow10(k + 1) + Decimals(a.n % a.d, a.d, k + 1) + 5) \div 10

\* coefficient vector (integers) times a rational vector
Dot(c, x) == RSum([j \in 1..Len(c) |-> RMul(RInt(c[j]), x[j])])

(***************************************************************************)
(* Determinants (Laplace expansion along the first row).                   *)
(***************************************************************************)
DropAt(s, j) == [k \in 1..(Len(s) - 1) |-> IF k < j THEN s[k] ELSE s[k + 1]]

Minor(M, j) == [i \in 1..(Len(M) - 1) |-> DropAt(M[i + 1], j)]

RECURSIVE Det(_)
Det(M) ==
    CHOOSE r \in
      {IF Len(A) = 0 THEN 1
       ELSE IF Len(A) = 1 THEN A[1][1]
       ELSE IF Len(A) = 2 THEN A[1][1] * A[2][2] - A[1][2] * A[2][1]
       ELSE SumSeq([j \in 1..Len(A) |->
               (IF j % 2 = 1 THEN 1 ELSE -1) * A[1][j] * Det(Minor(A, j))]) :
       A \in {M}} : TRUE

ReplaceCol(M, j, h) ==
    [i \in 1..Len(M) |-> [k \in 1..Len(M) |-> IF k = j THEN h[i] ELSE M[i][k]]]

(***************************************************************************)
(* scipy.optimize.linprog(c, A_ub, b_ub, method='highs') with the default  *)
(* bounds x >= 0.  G.x <= h collects the rows of A_ub and the bounds.      *)
(***************************************************************************)
BoundRows(n) == [j \in 1..n |-> [k \in 1..n |-> IF k = j THEN -1 ELSE 0]]

\* the common divisor of a vector (1 for the zero vector) and the vector
\* divided by it
Scale(u) == CHOOSE k \in {IF g = 0 THEN 1 ELSE g : g \in {GcdSeq(u, 0)}} : TRUE
Scaled(u, g) == [j \in 1..Len(u) |-> u[j] \div g]

\* the common divisor of each row of A.x <= b
RowScales(A, b) == [i \in 1..Len(A) |-> Scale(Append(A[i], b[i]))]

\* strictly increasing choices of k row indices among 1..r
RECURSIVE RowChoices(_, _)
RowChoices(k, r) ==
    IF k = 0 THEN {<<>>}
    ELSE IF r < k THEN {}
    ELSE RowChoices(k, r - 1) \cup {Append(s, r) : s \in RowChoices(k - 1, r - 1)}

\* integer numerators over one positive denominator, in lowest terms
Reduced(N, D) ==
    LET sg == IF D < 0 THEN -1 ELSE 1
        g  == IF D = 0 THEN 1 ELSE GcdSeq(N, sg * D)
    IN  [num |-> [j \in 1..Len(N) |-> (sg * N[j]) \div g], den |-> (sg * D) \div g]

\* the point where the n chosen rows are tight (Cramer's rule)
BasicPoint(G, h, s) ==
    LET n  == Len(s)
        M  == [i \in 1..n |-> G[s[i]]]
        hs == [i \in 1..n |-> h[s[i]]]
    IN  CHOOSE v \in {Reduced(r[1], r[2]) :
                        r \in {<<[j \in 1..n |-> Det(ReplaceCol(M, j, hs))], Det(M)>>}} : TRUE

Feasible(G, h, v) ==
    v.den # 0 /\ \A k \in 1..Len(G) : IDot(G[k], v.num) <= h[k] * v.den

FeasibleVertices(G, h, n) ==
    {v \in {BasicPoint(G, h, s) : s \in RowChoices(n, Len(G))} : Feasible(G, h, v)}

\* a direction along which the n-1 chosen rows stay tight
EdgeDir(G, s, n) ==
    [j \in 1..n |-> (IF j % 2 = 1 THEN 1 ELSE -1)
                      * Det([i \in 1..(n - 1) |-> DropAt(G[s[i]], j)])]

Recedes(G, d) ==
    /\ \E j \in 1..Len(d) : d[j] # 0
    /\ \A k \in 1..Len(G) : IDot(G[k], d) <= 0

ExtremeRays(G, n) ==
    LET dirs == {EdgeDir(G, s, n) : s \in RowChoices(n - 1, Len(G))}
        both == dirs \cup {[j \in 1..n |-> -d[j]] : d \in dirs}
    IN  {d \in both : Recedes(G, d)}

Unbounded(c, G, n) == \E d \in ExtremeRays(G, n) : IDot(c, d) < 0

\* a/b <= c/d for b, d > 0, by continued-fraction expansion (no products)
RECURSIVE QLe(_, _, _, _)
QLe(a, b, c, d) ==
    IF a \div b # c \div d THEN a \div b < c \div d
    ELSE IF a % b = 0 THEN TRUE
    ELSE IF c % d = 0 THEN FALSE
    ELSE QLe(d, c % d, b, a % b)

\* the objective value at each vertex, in lowest terms
Valued(c, F) == {<<v, Rat(IDot(c, v.num), v.den)>> : v \in F}

OptimalVertices(c, F) ==
    UNION {{p[1] : p \in {q \in VF : \A w \in VF :
                                     QLe(q[2].n, q[2].d, w[2].n, w[2].d)}} :
             VF \in {Valued(c, F)}}

\* the outcomes for the system G.x <= h with feasible basic points F
\* c is the objective divided by k, the common divisor of its entries
Outcomes(c, k, G, F) ==
    IF F = {} \/ Unbounded(c, G, Len(c))
    THEN {[success |-> FALSE, x |-> None, fun |-> None]}
    ELSE {[success |-> TRUE,
           x       |-> Some([j \in 1..Len(c) |-> Rat(v.num[j], v.den)]),
           fun     |-> Some(RMul(RInt(k), Rat(IDot(c, v.num), v.den)))] :
             v \in OptimalVertices(c, F)}

\* the outcomes for the objective c = k * cn and the rows A.x <= b, each row
\* divided by its common divisor gs[i]
Solutions(cn, k, A, b, gs) ==
    UNION {UNION {Outcomes(cn, k, G, F) : F \in {FeasibleVertices(G, h, Len(cn))}} :
             G \in {[i \in 1..Len(A) |-> Scaled(A[i], gs[i])] \o BoundRows(Len(cn))},
             h \in {[i \in 1..Len(A) |-> b[i] \div gs[i]]
                      \o [j \in 1..Len(cn) |-> 0]}}

\* the OptimizeResult values the call may return; the objective and each row
\* of A_ub.x <= b_ub are first divided by the common divisor of their entries
linprog(c, A_ub, b_ub) ==
    UNION {Solutions(Scaled(c, k), k, A_ub, b_ub, gs) :
             k \in {Scale(c)}, gs \in {RowScales(A_ub, b_ub)}}

\* the input validation of the call: c must have at least one entry, every
\* row of A_ub one coefficient per entry of c, and b_ub one entry per row of
\* A_ub; otherwise the call raises ValueError
linprog_rejects(c, A_ub, b_ub) ==
    \/ Len(c) = 0
    \/ \E i \in 1..Len(A_ub) : Len(A_ub[i]) # Len(c)
    \/ Len(A_ub) # Len(b_ub)

(***************************************************************************)
(* Matrix helpers of the formulation layer.                                *)
(***************************************************************************)
NegVec(v) == [i \in 1..Len(v) |-> -v[i]]
NegMat(A) == [i \in 1..Len(A) |-> NegVec(A[i])]

\* numpy.transpose of a rectangular list of rows
transpose(A) ==
    IF Len(A) = 0 THEN <<>>
    ELSE [j \in 1..Len(A[1]) |-> [i \in 1..Len(A) |-> A[i][j]]]

(***************************************************************************)
(* Resolution/question.py                                                  *)
(* A problem object keeps `costs` (primal) / `requirements` (dual) as a    *)
(* reference to the caller's list: the name of a cell of `heap`.           *)
(***************************************************************************)
\* variant: every entry is stored as minus its magnitude
PrimalProblem_init_magnitude(costs, cons, reqs) ==
    [costs        |-> costs,
     constraints  |-> [i \in 1..Len(cons) |->
                          [j \in 1..Len(cons[i]) |-> -Abs(cons[i][j])]],
     requirements |-> [i \in 1..Len(reqs) |-> -Abs(reqs[i])]]

\* variant: the constraint matrix keeps its sign
PrimalProblem_init_unnegated(costs, cons, reqs) ==
    [costs        |-> costs,
     constraints  |-> cons,
     requirements |-> [i \in 1..Len(reqs) |-> -reqs[i]]]

PrimalProblem_init(costs, cons, reqs) ==
    [costs        |-> costs,
     constraints  |-> [i \in 1..Len(cons) |->
                          [j \in 1..Len(cons[i]) |-> -cons[i][j]]],
     requirements |-> [i \in 1..Len(reqs) |-> -reqs[i]]]

\* variant: a failed solve returns a zero cost
PrimalProblem_solve_zero(self, mem) ==
    {IF result.success
       THEN [x |-> result.x, value |-> result.fun, printed |-> <<>>]
       ELSE [x |-> None, value |-> Some(RZero),
             printed |-> <<"Pas de solution optimale.">>] :
     result \in linprog(mem[self.costs], self.constraints, self.requirements)}

PrimalProblem_solve(self, mem) ==
    {IF result.success
       THEN [x |-> result.x, value |-> result.fun, printed |-> <<>>]
       ELSE [x |-> None, value |-> None,
             printed |-> <<"Pas de solution optimale.">>] :
     result \in linprog(mem[self.costs], self.constraints, self.requirements)}

\* variant: the constraint matrix is not transposed
DualProblem_init_untransposed(costs, cons, reqs) ==
    [costs        |-> [i \in 1..Len(reqs) |-> -reqs[i]],
     constraints  |-> cons,
     requirements |-> costs]

DualProblem_init(costs, cons, reqs) ==
    [costs        |-> [i \in 1..Len(reqs) |-> -reqs[i]],
     constraints  |-> transpose(cons),
     requirements |-> costs]

\* variant: the minimized objective is returned without the sign flip
DualProblem_solve_unnegated(self, mem) ==
    {IF result.success
       THEN [x |-> result.x, value |-> result.fun, printed |-> <<>>]
       ELSE [x |-> None, value |-> None,
             printed |-> <<"Pas de solution optimale pour le dual.">>] :
     result \in linprog(self.costs, self.constraints, mem[self.requirements])}

DualProblem_solve(self, mem) ==
    {IF result.success
       THEN [x |-> result.x, value |-> Some(RNeg(Val(result.fun))),
             printed |-> <<>>]
       ELSE [x |-> None, value |-> None,
             printed |-> <<"Pas de solution optimale pour le dual.">>] :
     result \in linprog(self.costs, self.constraints, mem[self.requirements])}

(***************************************************************************)
(* optimisation_militaire/generalisation.py                                *)
(***************************************************************************)
\* variant: nothing is negated (the rows read A.x <= b)
GeneralizedPrimalProblem_init_le(costs, cons, reqs) ==
    [costs        |-> costs,
     constraints  |-> [i \in 1..Len(cons) |->
                          [j \in 1..Len(cons[i]) |-> cons[i][j]]],
     requirements |-> [i \in 1..Len(reqs) |-> reqs[i]]]

\* variant: the requirement vector keeps its sign
GeneralizedPrimalProblem_init_keepsign(costs, cons, reqs) ==
    [costs        |-> costs,
     constraints  |-> [i \in 1..Len(cons) |->
                          [j \in 1..Len(cons[i]) |-> -cons[i][j]]],
     requirements |-> [i \in 1..Len(reqs) |-> reqs[i]]]

GeneralizedPrimalProblem_init(costs, cons, reqs) ==
    [costs        |-> costs,
     constraints  |-> [i \in 1..Len(cons) |->
                          [j \in 1..Len(cons[i]) |-> -cons[i][j]]],
     requirements |-> [i \in 1..Len(reqs) |-> -reqs[i]]]

\* variant: the slack of the constraints is returned instead of x
GeneralizedPrimalProblem_solve_slack(self, mem) ==
    {IF result.success
       THEN [x |-> Some([i \in 1..Len(self.constraints) |->
                           RAdd(RInt(self.requirements[i]),
                                RNeg(Dot(self.constraints[i], Val(result.x))))]),
             value |-> result.fun, printed |-> <<>>]
       ELSE [x |-> None, value |-> None,
             printed |-> <<"Aucune solution optimale trouvee">>] :
     result \in linprog(mem[self.costs], self.constraints, self.requirements)}

GeneralizedPrimalProblem_solve(self, mem) ==
    {IF result.success
       THEN [x |-> result.x, value |-> result.fun, printed |-> <<>>]
       ELSE [x |-> None, value |-> None,
             printed |-> <<"Aucune solution optimale trouvee">>] :
     result \in linprog(mem[self.costs], self.constraints, self.requirements)}

\* variant: the objective is the requirement vector, not its negation
GeneralizedDualProblem_init_maxsign(costs, cons, reqs) ==
    LET A_dual == transpose(cons)
    IN  [costs        |-> [i \in 1..Len(reqs) |-> reqs[i]],
         constraints  |-> [j \in 1..Len(A_dual) |->
                              [i \in 1..Len(A_dual[j]) |-> A_dual[j][i]]],
         requirements |-> costs]

GeneralizedDualProblem_init(costs, cons, reqs) ==
    LET A_dual == transpose(cons)
    IN  [costs        |-> [i \in 1..Len(reqs) |-> -reqs[i]],
         constraints  |-> [j \in 1..Len(A_dual) |->
                              [i \in 1..Len(A_dual[j]) |-> A_dual[j][i]]],
         requirements |-> costs]

\* variant: the minimized objective is returned without the sign flip
GeneralizedDualProblem_solve_unnegated(self, mem) ==
    {IF result.success
       THEN [x |-> result.x, value |-> result.fun, printed |-> <<>>]
       ELSE [x |-> None, value |-> None,
             printed |-> <<"Aucune solution optimale trouvee">>] :
     result \in linprog(self.costs, self.constraints, mem[self.requirements])}

GeneralizedDualProblem_solve(self, mem) ==
    {IF result.success
       THEN [x |-> result.x, value |-> Some(RNeg(Val(result.fun))),
             printed |-> <<>>]
       ELSE [x |-> None, value |-> None,
             printed |-> <<"Aucune solution optimale trouvee">>] :
     result \in linprog(self.costs, self.constraints, mem[self.requirements])}

(***************************************************************************)
(* The class pair of each script.                                          *)
(***************************************************************************)
NewPrimal(v, costs, cons, reqs) ==
    IF v = "basic" THEN PrimalProblem_init(costs, cons, reqs)
    ELSE GeneralizedPrimalProblem_init(costs, cons, reqs)

NewDual(v, costs, cons, reqs) ==
    IF v = "basic" THEN DualProblem_init(costs, cons, reqs)
    ELSE GeneralizedDualProblem_init(costs, cons, reqs)

SolvePrimalOf(v, self, mem) ==
    IF v = "basic" THEN PrimalProblem_solve(self, mem)
    ELSE GeneralizedPrimalProblem_solve(self, mem)

SolveDualOf(v, self, mem) ==
    IF v = "basic" THEN DualProblem_solve(self, mem)
    ELSE GeneralizedDualProblem_solve(self, mem)

(***************************************************************************)
(* Initial state: a data bundle (costs, constraints, requirements) with    *)
(* non-negative entries, and no problem formulated yet.  `base` keeps the  *)
(* bundle as given; heap.costs is the caller's cost list.                  *)
(***************************************************************************)
\* the data-entry script has not run
\* the totals the three display functions of the generalized script have
\* put out: none yet
nothing_shown == [primal |-> None, dual |-> None, comparative |-> None]

\* zip stops at the shortest of its arguments
zip_len(lens) == CHOOSE k \in lens : \A l \in lens : k <= l

\* total = 0; for each of the first k pairs: total += x * w
zip_total(xs, ws, k) == RSum([i \in 1..k |-> RMul(xs[i], RInt(ws[i]))])

NoInterface ==
    /\ n_constraints = 0
    /\ armes = <<>>
    /\ data = None
    /\ ask = None

InitOf(shapes) ==
    /\ variant \in {"basic", "generalized"}
    /\ \E sh \in shapes :
         LET n == sh[1]
             m == sh[2]
         IN  \E c \in [1..n -> Vals] :
               /\ heap = [costs |-> c, modified_costs |-> <<>>]
               /\ \E A \in [1..m -> [1..n -> Vals]], b \in [1..m -> Vals] :
                    /\ constraints = A
                    /\ requirements = b
                    /\ base = [costs |-> c, constraints |-> A, requirements |-> b]
    /\ primal = None
    /\ dual = None
    /\ lots = None
    /\ cost_total = None
    /\ prices = None
    /\ profit = None
    /\ out = <<>>
    /\ pc = "start"
    /\ price_idx = 0
    /\ cost_totals = <<>>
    /\ profit_totals = <<>>
    /\ raised = ""
    /\ shown = nothing_shown
    /\ NoInterface

Init == InitOf(Shapes)

\* bundles of any shape <<len(costs), rows, columns, len(requirements)>>:
\* nothing in the code ties the four lengths together
BundleInit(shapes) ==
    /\ variant \in {"basic", "generalized"}
    /\ \E sh \in shapes :
         \E c \in [1..sh[1] -> Vals], A \in [1..sh[2] -> [1..sh[3] -> Vals]],
            b \in [1..sh[4] -> Vals] :
           /\ heap = [costs |-> c, modified_costs |-> <<>>]
           /\ constraints = A
           /\ requirements = b
           /\ base = [costs |-> c, constraints |-> A, requirements |-> b]
    /\ primal = None
    /\ dual = None
    /\ lots = None
    /\ cost_total = None
    /\ prices = None
    /\ profit = None
    /\ out = <<>>
    /\ pc = "start"
    /\ price_idx = 0
    /\ cost_totals = <<>>
    /\ profit_totals = <<>>
    /\ raised = ""
    /\ shown = nothing_shown
    /\ NoInterface

MismatchInit == BundleInit(MismatchShapes)

EmptyInit == BundleInit(EmptyShapes)

\* Resolution/app.py, main: the data of scenario 1
scenario1_costs == <<10, 12, 15>>

scenario1_constraints ==
    <<<<500, 300, 800>>,
      <<1000, 2000, 1500>>,
      <<10, 20, 15>>,
      <<100, 80, 15>>,
      <<80, 120, 200>>>>

scenario1_requirements == <<100000, 200000, 100, 400, 400>>

\* scenario 1 with lot 1 at any price the sweeps give it
ScenarioInit ==
    /\ variant \in {"basic", "generalized"}
    /\ \E p \in 1..MaxLot1Price :
         /\ heap = [costs |-> [scenario1_costs EXCEPT ![1] = p],
                    modified_costs |-> <<>>]
         /\ base = [costs |-> [scenario1_costs EXCEPT ![1] = p],
                    constraints |-> scenario1_constraints,
                    requirements |-> scenario1_requirements]
    /\ constraints = scenario1_constraints
    /\ requirements = scenario1_requirements
    /\ primal = None
    /\ dual = None
    /\ lots = None
    /\ cost_total = None
    /\ prices = None
    /\ profit = None
    /\ out = <<>>
    /\ pc = "start"
    /\ price_idx = 0
    /\ cost_totals = <<>>
    /\ profit_totals = <<>>
    /\ raised = ""
    /\ shown = nothing_shown
    /\ NoInterface

SweepInit == InitOf(SweepShapes)

sweepVars == <<price_idx, cost_totals, profit_totals>>
solverVars == <<primal, dual, lots, cost_total, prices, profit>>
ifaceVars == <<n_constraints, armes, data, ask>>
dataVars == <<variant, heap, constraints, requirements, base, ifaceVars>>

(***************************************************************************)
(* Formulate and solve, as the tests and the main flows call them.         *)
(***************************************************************************)
ConstructPrimal ==
    /\ pc = "start"
    /\ primal' = Some(NewPrimal(variant, "costs", constraints, requirements))
    /\ pc' = "primal_built"
    /\ UNCHANGED <<shown, dataVars, dual, lots, cost_total, prices, profit, out,
                   sweepVars, raised>>

\* solve() does not catch the ValueError of a rejected call
SolvePrimal ==
    /\ pc = "primal_built"
    /\ IF linprog_rejects(heap[Val(primal).costs], Val(primal).constraints,
                          Val(primal).requirements)
         THEN /\ raised' = "ValueError"
              /\ pc' = "raised"
              /\ UNCHANGED <<lots, cost_total, out>>
         ELSE /\ \E r \in SolvePrimalOf(variant, Val(primal), heap) :
                   /\ lots' = r.x
                   /\ cost_total' = r.value
                   /\ out' = out \o r.printed
              /\ pc' = "primal_solved"
              /\ UNCHANGED raised
    /\ UNCHANGED <<shown, dataVars, primal, dual, prices, profit, sweepVars>>

ConstructDual ==
    /\ pc = "primal_solved"
    /\ dual' = Some(NewDual(variant, "costs", constraints, requirements))
    /\ pc' = "dual_built"
    /\ UNCHANGED <<shown, dataVars, primal, lots, cost_total, prices, profit, out,
                   sweepVars, raised>>

SolveDual ==
    /\ pc = "dual_built"
    /\ IF linprog_rejects(Val(dual).costs, Val(dual).constraints,
                          heap[Val(dual).requirements])
         THEN /\ raised' = "ValueError"
              /\ pc' = "raised"
              /\ UNCHANGED <<prices, profit, out>>
         ELSE /\ \E r \in SolveDualOf(variant, Val(dual), heap) :
                   /\ prices' = r.x
                   /\ profit' = r.value
                   /\ out' = out \o r.printed
              /\ pc' = "dual_solved"
              /\ UNCHANGED raised
    /\ UNCHANGED <<shown, dataVars, primal, dual, lots, cost_total, sweepVars>>

\* tests/test_question.py, test_dual: the dual is formulated straight from
\* the data, without a primal before it
test_dual ==
    /\ pc = "start"
    /\ dual' = Some(NewDual(variant, "costs", constraints, requirements))
    /\ pc' = "dual_built"
    /\ UNCHANGED <<shown, dataVars, primal, lots, cost_total, prices, profit, out,
                   sweepVars, raised>>

(***************************************************************************)
(* A caller that keeps its three lists after formulating a problem and     *)
(* assigns to one entry of them, as study_price_variation does with        *)
(* costs[0] = price.  The caller changes one entry, once.                  *)
(***************************************************************************)
Formulated == primal # None \/ dual # None

Untouched ==
    /\ heap.costs = base.costs
    /\ constraints = base.constraints
    /\ requirements = base.requirements

\* costs[i] = v, in place
caller_sets_cost ==
    /\ Formulated /\ Untouched
    /\ \E i \in 1..Len(heap.costs), v \in Vals :
         /\ v # heap.costs[i]
         /\ heap' = [heap EXCEPT !.costs[i] = v]
    /\ UNCHANGED <<shown, variant, constraints, requirements, base, ifaceVars,
                   solverVars, out, pc, sweepVars, raised>>

\* constraints[i][j] = v, in place
caller_sets_constraint ==
    /\ Formulated /\ Untouched
    /\ \E i \in 1..Len(constraints) :
         \E j \in 1..Len(constraints[i]), v \in Vals :
           /\ v # constraints[i][j]
           /\ constraints' = [constraints EXCEPT ![i][j] = v]
    /\ UNCHANGED <<shown, variant, heap, requirements, base, ifaceVars,
                   solverVars, out, pc, sweepVars, raised>>

\* requirements[i] = v, in place
caller_sets_requirement ==
    /\ Formulated /\ Untouched
    /\ \E i \in 1..Len(requirements), v \in Vals :
         /\ v # requirements[i]
         /\ requirements' = [requirements EXCEPT ![i] = v]
    /\ UNCHANGED <<shown, variant, heap, constraints, base, ifaceVars,
                   solverVars, out, pc, sweepVars, raised>>

(***************************************************************************)
(* Resolution/app.py: study_price_variation.  One action per iteration of  *)
(* the loop over price_range = range(1, 30); a TypeError leaves the loop.  *)
(* The function's literal data block (costs, constraints, requirements) is *)
(* represented by the data bundle of the state, so the loop is explored    *)
(* over the whole bounded input space.                                     *)
(***************************************************************************)
\* price_range = list(range(1, 30))
study_price_variation_price_range == [k \in 1..29 |-> k]

\* costs[0] = price, in place
study_price_variation_costs(costs, price) == [costs EXCEPT ![1] = price]

study_price_variation_iter ==
    /\ variant = "basic"
    /\ pc \in {"start", "sweep"}
    /\ price_idx < Len(study_price_variation_price_range)
    /\ LET price == study_price_variation_price_range[price_idx + 1]
           mem   == [heap EXCEPT !.costs = study_price_variation_costs(heap.costs, price)]
           p     == PrimalProblem_init("costs", constraints, requirements)
           d     == DualProblem_init("costs", constraints, requirements)
       IN  /\ heap' = mem
           /\ primal' = Some(p)
           /\ dual' = Some(d)
           /\ \E rp \in PrimalProblem_solve(p, mem),
                 rd \in DualProblem_solve(d, mem) :
                /\ lots' = rp.x
                /\ cost_total' = rp.value
                /\ cost_totals' = Append(cost_totals, rp.value)
                /\ prices' = rd.x
                /\ profit' = rd.value
                /\ out' = out \o rp.printed \o rd.printed
                /\ IF rd.value = None
                     THEN \* profit * 1000000 with profit None
                          /\ profit_totals' = profit_totals
                          /\ raised' = "TypeError"
                     ELSE /\ profit_totals' = Append(profit_totals,
                                 Some(RMul(Val(rd.value), RInt(1000000))))
                          /\ raised' = IF rp.x = None THEN "TypeError" ELSE ""
                /\ IF rd.value = None \/ rp.x = None
                     THEN pc' = "raised" /\ price_idx' = price_idx
                     ELSE pc' = "sweep" /\ price_idx' = price_idx + 1
    /\ UNCHANGED <<shown, variant, constraints, requirements, base, ifaceVars>>

study_price_variation_plot ==
    /\ variant = "basic"
    /\ pc = "sweep"
    /\ price_idx = Len(study_price_variation_price_range)
    /\ pc' = "done"
    /\ UNCHANGED <<shown, dataVars, primal, dual, lots, cost_total, prices, profit,
                   out, sweepVars, raised>>

(***************************************************************************)
(* optimisation_militaire/app.py: study_sensitivity(costs, constraints,    *)
(* requirements), price_range = range(1, 31).                              *)
(***************************************************************************)
\* variant: range(1, 30), one price short
study_sensitivity_price_range_short == [k \in 1..29 |-> k]

\* price_range = list(range(1, 31))
study_sensitivity_price_range == [k \in 1..30 |-> k]

\* variant: the new price lands on the last lot
study_sensitivity_modified_costs_last(costs, new_price) ==
    [costs EXCEPT ![Len(costs)] = new_price]

\* modified_costs = costs.copy(); modified_costs[0] = new_price
study_sensitivity_modified_costs(costs, new_price) ==
    [costs EXCEPT ![1] = new_price]

\* variant: modified_costs = costs, the caller's list itself
study_sensitivity_heap_aliased(mem, modified_costs) ==
    [mem EXCEPT !.costs = modified_costs, !.modified_costs = modified_costs]

\* modified_costs is a list of its own: the assignment to modified_costs[0]
\* writes to the copy and to nothing else
study_sensitivity_heap(mem, modified_costs) ==
    [mem EXCEPT !.modified_costs = modified_costs]

\* `v if v else 0`: None and 0 are both falsy
OrZero(v) == IF v # None /\ Val(v) # RZero THEN v ELSE Some(RZero)

study_sensitivity_iter ==
    /\ variant = "generalized"
    /\ pc \in {"start", "sweep"}
    /\ price_idx < Len(study_sensitivity_price_range)
    /\ LET new_price      == study_sensitivity_price_range[price_idx + 1]
           modified_costs == study_sensitivity_modified_costs(heap.costs, new_price)
           mem == study_sensitivity_heap(heap, modified_costs)
           p   == GeneralizedPrimalProblem_init("modified_costs",
                                                constraints, requirements)
           d   == GeneralizedDualProblem_init("modified_costs",
                                              constraints, requirements)
       IN  /\ heap' = mem
           /\ primal' = Some(p)
           /\ dual' = Some(d)
           /\ \E rp \in GeneralizedPrimalProblem_solve(p, mem),
                 rd \in GeneralizedDualProblem_solve(d, mem) :
                /\ lots' = rp.x
                /\ cost_total' = rp.value
                /\ cost_totals' = Append(cost_totals, OrZero(rp.value))
                /\ prices' = rd.x
                /\ profit' = rd.value
                /\ profit_totals' = Append(profit_totals, OrZero(rd.value))
                /\ out' = out \o rp.printed \o rd.printed
           /\ price_idx' = price_idx + 1
           /\ pc' = "sweep"
    /\ UNCHANGED <<shown, variant, constraints, requirements, base, raised, ifaceVars>>

study_sensitivity_plot ==
    /\ variant = "generalized"
    /\ pc = "sweep"
    /\ price_idx = Len(study_sensitivity_price_range)
    /\ pc' = "done"
    /\ UNCHANGED <<shown, dataVars, primal, dual, lots, cost_total, prices, profit,
                   out, sweepVars, raised>>

(***************************************************************************)
(* The main flows of the two scripts: formulate, solve and display the     *)
(* primal, then the dual, then run the sweep.  The tables printed are not  *)
(* recorded, the plot calls do nothing to the state.  The basic script     *)
(* runs on its literal data (scenario 1), the generalized one on the       *)
(* bundle it loads; study_price_variation works on literals of its own and *)
(* is explored separately, so the basic flow ends where it is called.      *)
(***************************************************************************)
MainInit ==
    /\ \/ /\ variant = "basic"
          /\ heap = [costs |-> scenario1_costs, modified_costs |-> <<>>]
          /\ constraints = scenario1_constraints
          /\ requirements = scenario1_requirements
          /\ base = [costs |-> scenario1_costs,
                     constraints |-> scenario1_constraints,
                     requirements |-> scenario1_requirements]
          /\ armes = <<"fusils", "Grenades", "Chars", "Mitrailleuses", "bazookas">>
       \/ /\ variant = "generalized"
          /\ \E sh \in SweepShapes :
               \E c \in [1..sh[1] -> Vals], A \in [1..sh[2] -> [1..sh[1] -> Vals]],
                  b \in [1..sh[2] -> Vals] :
                 /\ heap = [costs |-> c, modified_costs |-> <<>>]
                 /\ constraints = A
                 /\ requirements = b
                 /\ base = [costs |-> c, constraints |-> A, requirements |-> b]
                 /\ armes = [i \in 1..sh[2] |-> "arme"]
    /\ primal = None
    /\ dual = None
    /\ lots = None
    /\ cost_total = None
    /\ prices = None
    /\ profit = None
    /\ out = <<>>
    /\ pc = "start"
    /\ price_idx = 0
    /\ cost_totals = <<>>
    /\ profit_totals = <<>>
    /\ raised = ""
    /\ shown = nothing_shown
    /\ n_constraints = 0
    /\ data = None
    /\ ask = None

\* Resolution/app.py, display_primal_results(lots, costs, cost_total):
\* zip(lots, costs) raises TypeError when lots is None
display_primal_results ==
    /\ variant = "basic"
    /\ pc = "primal_solved"
    /\ IF lots = None
         THEN raised' = "TypeError" /\ pc' = "raised"
         ELSE pc' = "primal_shown" /\ UNCHANGED raised
    /\ UNCHANGED <<shown, dataVars, solverVars, out, sweepVars>>

\* optimisation_militaire/app.py, display_primal_solution(lots, costs):
\* zip(lots, costs) raises TypeError when lots is None
display_primal_solution ==
    /\ variant = "generalized"
    /\ pc = "primal_solved"
    /\ IF lots = None
         THEN raised' = "TypeError" /\ pc' = "raised" /\ UNCHANGED shown
         ELSE LET k          == zip_len({Len(Val(lots)), Len(heap.costs)})
                  total_cost == zip_total(Val(lots), heap.costs, k)
              IN  /\ shown' = [shown EXCEPT !.primal =
                                 Some([total_cost |-> RoundTo(total_cost, 2)])]
                  /\ pc' = "primal_shown"
                  /\ UNCHANGED raised
    /\ UNCHANGED <<dataVars, solverVars, out, sweepVars>>

\* dual = DualProblem(...) / GeneralizedDualProblem(...), after the display
main_dual ==
    /\ pc = "primal_shown"
    /\ dual' = Some(NewDual(variant, "costs", constraints, requirements))
    /\ pc' = "dual_built"
    /\ UNCHANGED <<shown, dataVars, primal, lots, cost_total, prices, profit, out,
                   sweepVars, raised>>

\* Resolution/app.py, display_dual_results(prices, profit): zip(armes,
\* prices) raises TypeError when prices is None; study_price_variation()
\* is called next
display_dual_results ==
    /\ variant = "basic"
    /\ pc = "dual_solved"
    /\ IF prices = None
         THEN raised' = "TypeError" /\ pc' = "raised"
         ELSE pc' = "study_price_variation" /\ UNCHANGED raised
    /\ UNCHANGED <<shown, dataVars, solverVars, out, sweepVars>>

\* optimisation_militaire/app.py, display_dual_solution(prices,
\* requirements, armes): zip(armes, prices, requirements) raises TypeError
\* when prices is None
display_dual_solution ==
    /\ variant = "generalized"
    /\ pc = "dual_solved"
    /\ IF prices = None
         THEN raised' = "TypeError" /\ pc' = "raised" /\ UNCHANGED shown
         ELSE LET k            == zip_len({Len(armes), Len(Val(prices)),
                                           Len(requirements)})
                  total_profit == zip_total(Val(prices), requirements, k)
              IN  /\ shown' = [shown EXCEPT !.dual =
                                 Some([total_profit |-> RoundTo(total_profit, 2),
                                       returned     |-> total_profit])]
                  /\ pc' = "dual_shown"
                  /\ UNCHANGED raised
    /\ UNCHANGED <<dataVars, solverVars, out, sweepVars>>

\* display_comparative_table(lots, costs, prices, armes, requirements), then
\* study_sensitivity(costs, constraints, requirements) is entered
display_comparative_table ==
    /\ variant = "generalized"
    /\ pc = "dual_shown"
    /\ IF lots = None \/ prices = None
         THEN raised' = "TypeError" /\ pc' = "raised" /\ UNCHANGED shown
         ELSE LET k             == zip_len({Len(Val(lots)), Len(heap.costs),
                                            Len(Val(prices)), Len(requirements)})
                  total_cost    == zip_total(Val(lots), heap.costs, k)
                  total_benefit == zip_total(Val(prices), requirements, k)
              IN  /\ shown' = [shown EXCEPT !.comparative =
                                 Some([total_cost    |-> RoundTo(total_cost, 2),
                                       total_benefit |-> RoundTo(total_benefit, 2)])]
                  /\ pc' = "sweep"
                  /\ UNCHANGED raised
    /\ UNCHANGED <<dataVars, solverVars, out, sweepVars>>

(***************************************************************************)
(* optimisation_militaire/interface.py.  A line typed by the user is a     *)
(* sequence of characters; only error messages are recorded in `out`.      *)
(***************************************************************************)
\* str.strip(): leading and trailing blanks removed
strip(s) ==
    LET idx == {i \in 1..Len(s) : s[i] # " "}
    IN  IF idx = {} THEN <<>>
        ELSE SubSeq(s, CHOOSE i \in idx : \A k \in idx : i <= k,
                       CHOOSE j \in idx : \A k \in idx : k <= j)

\* str.split(): the maximal runs of non-blank characters, left to right
RECURSIVE split_from(_, _, _, _)
split_from(s, i, cur, acc) ==
    IF i > Len(s) THEN (IF cur = <<>> THEN acc ELSE Append(acc, cur))
    ELSE IF s[i] = " "
           THEN split_from(s, i + 1, <<>>, IF cur = <<>> THEN acc ELSE Append(acc, cur))
           ELSE split_from(s, i + 1, Append(cur, s[i]), acc)

split(s) == split_from(s, 1, <<>>, <<>>)

\* the value of a string of decimal digits
RECURSIVE decimal(_, _)
decimal(t, k) ==
    IF k = 0 THEN 0
    ELSE 10 * decimal(t, k - 1)
           + (CASE t[k] = "0" -> 0 [] t[k] = "1" -> 1 [] t[k] = "2" -> 2)

is_digits(t) == Len(t) > 0 /\ \A i \in 1..Len(t) : t[i] \in Digits

\* float(v): ValueError unless v is a numeral
float_raises(v) == ~is_digits(v)
float(v) == decimal(v, Len(v))

\* int(input(...)): blanks around the numeral are ignored
int_raises(s) == ~is_digits(strip(s))
int(s) == decimal(strip(s), Len(strip(s)))

\* variant: the number of values is not checked
ask_for_list_anylength(line, length) ==
    LET values == split(strip(line))
    IN  IF \E i \in 1..Len(values) : float_raises(values[i])
          THEN [returned |-> None,
                printed  |-> <<"Erreur : saisie incorrecte">>]
          ELSE [returned |-> Some([i \in 1..Len(values) |-> float(values[i])]),
                printed  |-> <<>>]

\* variant: values beyond the expected number are dropped
ask_for_list_truncating(line, length) ==
    LET values == split(strip(line))
        kept   == IF length # None /\ Len(values) > Val(length)
                    THEN SubSeq(values, 1, Val(length)) ELSE values
    IN  IF length # None /\ Len(kept) # Val(length)
          THEN [returned |-> None,
                printed  |-> <<"Erreur : vous devez saisir exactement N valeurs.">>]
          ELSE IF \E i \in 1..Len(kept) : float_raises(kept[i])
                 THEN [returned |-> None,
                       printed  |-> <<"Erreur : saisie incorrecte">>]
                 ELSE [returned |-> Some([i \in 1..Len(kept) |-> float(kept[i])]),
                       printed  |-> <<>>]

\* one pass of the `while True` loop of ask_for_list on the line typed:
\* the list returned, or None when the loop prompts again
ask_for_list(line, length) ==
    LET values == split(strip(line))
    IN  IF length # None /\ Len(values) # Val(length)
          THEN [returned |-> None,
                printed  |-> <<"Erreur : vous devez saisir exactement N valeurs.">>]
          ELSE IF \E i \in 1..Len(values) : float_raises(values[i])
                 THEN [returned |-> None,
                       printed  |-> <<"Erreur : saisie incorrecte">>]
                 ELSE [returned |-> Some([i \in 1..Len(values) |->
                                            float(values[i])]),
                       printed  |-> <<>>]

InterfaceInit ==
    /\ variant = "generalized"
    /\ heap = [costs |-> <<>>, modified_costs |-> <<>>]
    /\ constraints = <<>>
    /\ requirements = <<>>
    /\ base = [costs |-> <<>>, constraints |-> <<>>, requirements |-> <<>>]
    /\ primal = None
    /\ dual = None
    /\ lots = None
    /\ cost_total = None
    /\ prices = None
    /\ profit = None
    /\ out = <<>>
    /\ pc = "ask_costs"
    /\ price_idx = 0
    /\ cost_totals = <<>>
    /\ profit_totals = <<>>
    /\ raised = ""
    /\ shown = nothing_shown
    /\ NoInterface

\* costs = ask_for_list(...)
main_costs ==
    /\ pc = "ask_costs"
    /\ \E line \in Lines :
         LET r == ask_for_list(line, None)
         IN  /\ Len(out \o r.printed) <= MaxErrors
             /\ out' = out \o r.printed
             /\ ask' = Some([line |-> line, length |-> None,
                             returned |-> r.returned])
             /\ IF r.returned = None
                  THEN UNCHANGED <<heap, pc>>
                  ELSE /\ heap' = [heap EXCEPT !.costs = Val(r.returned)]
                       /\ pc' = "ask_n_constraints"
    /\ UNCHANGED <<shown, variant, constraints, requirements, base, solverVars,
                   sweepVars, raised, n_constraints, armes, data>>

\* n_constraints = int(input(...)): a line that is not an integer ends the
\* script with ValueError
main_n_constraints ==
    /\ pc = "ask_n_constraints"
    /\ \E line \in Lines :
         IF int_raises(line)
           THEN /\ raised' = "ValueError"
                /\ pc' = "raised"
                /\ UNCHANGED n_constraints
           ELSE /\ int(line) <= MaxTypes
                /\ n_constraints' = int(line)
                /\ pc' = IF int(line) > 0 THEN "ask_row" ELSE "ask_requirements"
                /\ UNCHANGED raised
    /\ UNCHANGED <<shown, variant, heap, constraints, requirements, base, solverVars,
                   sweepVars, out, armes, data, ask>>

\* row = ask_for_list(prompt, length=n_lots); constraints.append(row)
main_row ==
    /\ pc = "ask_row"
    /\ \E line \in Lines :
         LET r == ask_for_list(line, Some(Len(heap.costs)))
         IN  /\ Len(out \o r.printed) <= MaxErrors
             /\ out' = out \o r.printed
             /\ ask' = Some([line |-> line, length |-> Some(Len(heap.costs)),
                             returned |-> r.returned])
             /\ IF r.returned = None
                  THEN UNCHANGED <<constraints, pc>>
                  ELSE /\ constraints' = Append(constraints, Val(r.returned))
                       /\ pc' = IF Len(constraints) + 1 = n_constraints
                                  THEN "ask_requirements" ELSE "ask_row"
    /\ UNCHANGED <<shown, variant, heap, requirements, base, solverVars,
                   sweepVars, raised, n_constraints, armes, data>>

\* the dictionary handed to json.dump
main_data(names) ==
    [costs |-> heap.costs, constraints |-> constraints,
     requirements |-> requirements, armes |-> names]

\* requirements = ask_for_list(..., length=n_constraints); without weapon
\* types no name is asked for and the file is written at once
main_requirements ==
    /\ pc = "ask_requirements"
    /\ \E line \in Lines :
         LET r == ask_for_list(line, Some(n_constraints))
         IN  /\ Len(out \o r.printed) <= MaxErrors
             /\ out' = out \o r.printed
             /\ ask' = Some([line |-> line, length |-> Some(n_constraints),
                             returned |-> r.returned])
             /\ IF r.returned = None
                  THEN UNCHANGED <<requirements, pc, data>>
                  ELSE /\ requirements' = Val(r.returned)
                       /\ IF n_constraints > 0
                            THEN pc' = "ask_name" /\ UNCHANGED data
                            ELSE /\ pc' = "written"
                                 /\ data' = Some([main_data(armes) EXCEPT
                                              !.requirements = Val(r.returned)])
    /\ UNCHANGED <<shown, variant, heap, constraints, base, solverVars,
                   sweepVars, raised, n_constraints, armes>>

\* nom = input(...); armes.append(nom); after the last name the file is
\* written
main_name ==
    /\ pc = "ask_name"
    /\ \E nom \in Names :
         /\ armes' = Append(armes, nom)
         /\ IF Len(armes) + 1 = n_constraints
              THEN pc' = "written" /\ data' = Some(main_data(Append(armes, nom)))
              ELSE UNCHANGED <<pc, data>>
    /\ UNCHANGED <<shown, variant, heap, constraints, requirements, base, solverVars,
                   sweepVars, raised, out, n_constraints, ask>>

InterfaceNext ==
    \/ main_costs
    \/ main_n_constraints
    \/ main_row
    \/ main_requirements
    \/ main_name

InterfaceSpec == InterfaceInit /\ [][InterfaceNext]_vars

(***************************************************************************)
(* Spec: a caller formulates and solves the primal, then the dual.         *)
(* SweepSpec: a caller runs the sensitivity sweep of its script.           *)
(***************************************************************************)
Next ==
    \/ ConstructPrimal
    \/ SolvePrimal
    \/ ConstructDual
    \/ SolveDual

Spec == Init /\ [][Next]_vars

MismatchNext ==
    \/ ConstructPrimal
    \/ SolvePrimal
    \/ ConstructDual
    \/ SolveDual
    \/ test_dual

MismatchSpec == MismatchInit /\ [][MismatchNext]_vars

EmptySpec == EmptyInit /\ [][Next]_vars

ScenarioSpec == ScenarioInit /\ [][Next]_vars

AliasNext ==
    \/ ConstructPrimal
    \/ SolvePrimal
    \/ ConstructDual
    \/ SolveDual
    \/ test_dual
    \/ caller_sets_cost
    \/ caller_sets_constraint
    \/ caller_sets_requirement

AliasSpec == Init /\ [][AliasNext]_vars

MainNext ==
    \/ ConstructPrimal
    \/ SolvePrimal
    \/ display_primal_results
    \/ display_primal_solution
    \/ main_dual
    \/ SolveDual
    \/ display_dual_results
    \/ display_dual_solution
    \/ display_comparative_table
    \/ study_sensitivity_iter
    \/ study_sensitivity_plot

MainSpec == MainInit /\ [][MainNext]_vars

SweepNext ==
    \/ study_price_variation_iter
    \/ study_price_variation_plot
    \/ study_sensitivity_iter
    \/ study_sensitivity_plot

SweepSpec == SweepInit /\ [][SweepNext]_vars

(***************************************************************************)
(* Properties of the formulate-and-solve layer (checked under Spec).       *)
(***************************************************************************)
PrimalBuilt == primal # None
DualBuilt == dual # None
PrimalSolved == pc \in {"primal_solved", "dual_built", "dual_solved"}
DualSolved == pc = "dual_solved"

\* no OptimizeResult of the call reports success
Fails(c, A_ub, b_ub) == \A r \in linprog(c, A_ub, b_ub) : ~r.success

RNonNeg(a) == a.n >= 0

\* C1: the primal problem stores -constraints[i][j] for every entry,
\* -requirements[i] for every entry, and the cost vector entry for entry.
C1_PrimalCanonicalForm ==
    PrimalBuilt =>
      LET p == Val(primal)
      IN  /\ Len(p.constraints) = Len(constraints)
          /\ \A i \in 1..Len(constraints) :
               /\ Len(p.constraints[i]) = Len(constraints[i])
               /\ \A j \in 1..Len(constraints[i]) :
                    p.constraints[i][j] = -constraints[i][j]
          /\ Len(p.requirements) = Len(requirements)
          /\ \A i \in 1..Len(requirements) :
               p.requirements[i] = -requirements[i]
          /\ heap[p.costs] = base.costs

C1_Witness ==
    /\ pc = "primal_built"
    /\ PrimalBuilt
    /\ \E i \in 1..Len(constraints) :
         /\ requirements[i] > 0
         /\ \E j \in 1..Len(constraints[i]) : constraints[i][j] > 0

\* C2: the dual problem stores -requirements as objective, the n x m
\* transpose of the original constraints, and the original costs as
\* right-hand side.
C2_DualCanonicalForm ==
    DualBuilt =>
      LET d == Val(dual)
          n == Len(base.costs)
          m == Len(requirements)
      IN  /\ Len(d.costs) = m
          /\ \A i \in 1..m : d.costs[i] = -requirements[i]
          /\ Len(d.constraints) = n
          /\ \A j \in 1..n :
               /\ Len(d.constraints[j]) = m
               /\ \A i \in 1..m : d.constraints[j][i] = constraints[i][j]
          /\ heap[d.requirements] = base.costs

C2_Witness ==
    /\ pc = "dual_built"
    /\ DualBuilt
    /\ Len(constraints) # Len(base.costs)
    /\ \E i \in 1..Len(constraints) :
         /\ requirements[i] > 0
         /\ \E j \in 1..Len(constraints[i]) : constraints[i][j] > 0

\* C3: on success the reported cost is costs.x and the reported profit is
\* requirements.y for the original requirements.
C3_ReportedObjective ==
    /\ (PrimalSolved /\ cost_total # None) =>
         Val(cost_total) = Dot(base.costs, Val(lots))
    /\ (DualSolved /\ profit # None) =>
         Val(profit) = Dot(requirements, Val(prices))

C3_Witness ==
    /\ DualSolved
    /\ cost_total # None
    /\ profit # None
    /\ Val(profit).n > 0
    /\ Val(cost_total).n > 0

\* C4: a failed solve returns (None, None) and prints one diagnostic; a
\* successful solve returns two values and prints nothing; no exception.
C4_FailureSentinel ==
    LET pFailed == Fails(heap[Val(primal).costs], Val(primal).constraints,
                         Val(primal).requirements)
        dFailed == Fails(Val(dual).costs, Val(dual).constraints,
                         heap[Val(dual).requirements])
    IN  /\ raised = ""
        /\ PrimalSolved =>
             /\ pFailed => (lots = None /\ cost_total = None)
             /\ ~pFailed => (lots # None /\ cost_total # None)
             /\ ~DualSolved => Len(out) = (IF pFailed THEN 1 ELSE 0)
        /\ DualSolved =>
             /\ dFailed => (prices = None /\ profit = None)
             /\ ~dFailed => (prices # None /\ profit # None)
             /\ Len(out) = (IF pFailed THEN 1 ELSE 0) + (IF dFailed THEN 1 ELSE 0)

C4_Witness ==
    /\ DualSolved
    /\ lots = None
    /\ cost_total = None
    /\ prices = None
    /\ profit = None
    /\ Len(out) = 2

\* C5: when both solves succeed, total cost and total profit differ by
\* less than 1e-4.
C5_StrongDuality ==
    (DualSolved /\ cost_total # None /\ profit # None) =>
      LET a == Val(cost_total)
          b == Val(profit)
      IN  10000 * Abs(a.n * b.d - b.n * a.d) < a.d * b.d

C5_Witness ==
    /\ DualSolved
    /\ cost_total # None
    /\ profit # None
    /\ Val(cost_total).n > 0
    /\ Len(constraints) # Len(base.costs)

\* C9: a returned primal solution has len(costs) entries and a returned
\* dual solution has len(requirements) entries.
C9_SolutionShape ==
    /\ (PrimalSolved /\ lots # None) => Len(Val(lots)) = Len(base.costs)
    /\ (DualSolved /\ prices # None) => Len(Val(prices)) = Len(requirements)

C9_Witness ==
    /\ DualSolved
    /\ lots # None
    /\ prices # None
    /\ Len(Val(lots)) = 2
    /\ Len(Val(prices)) = 1

\* C10: with non-negative data every returned lot quantity, unit price,
\* total cost and total profit is >= 0.
C10_NonNegative ==
    /\ (PrimalSolved /\ lots # None) =>
         /\ \A j \in 1..Len(Val(lots)) : RNonNeg(Val(lots)[j])
         /\ RNonNeg(Val(cost_total))
    /\ (DualSolved /\ prices # None) =>
         /\ \A i \in 1..Len(Val(prices)) : RNonNeg(Val(prices)[i])
         /\ RNonNeg(Val(profit))

C10_Witness ==
    /\ DualSolved
    /\ lots # None
    /\ prices # None
    /\ \E j \in 1..Len(Val(lots)) : Val(lots)[j].n > 0
    /\ \E i \in 1..Len(Val(prices)) : Val(prices)[i].n > 0

(***************************************************************************)
(* Properties of the sensitivity sweeps (checked under SweepSpec).         *)
(***************************************************************************)
SweepStarted == pc \in {"sweep", "raised", "done"}

\* the price of the latest iteration: every iteration appends a cost entry
LatestPrice == Len(cost_totals)

\* the base cost vector with the first lot priced at p
PricedCosts(p) == [j \in 1..Len(base.costs) |-> IF j = 1 THEN p ELSE base.costs[j]]

\* total cost / total profit of the base problem with the first lot at p,
\* None when that problem has no optimum
CostAt(p) ==
    CHOOSE v \in {r.fun : r \in linprog(PricedCosts(p), NegMat(base.constraints),
                                        NegVec(base.requirements))} : TRUE

ProfitAt(p) ==
    CHOOSE v \in {IF r.success THEN Some(RNeg(Val(r.fun))) ELSE None :
                  r \in linprog(NegVec(base.requirements),
                                transpose(base.constraints), PricedCosts(p))} : TRUE

\* what each script appends for price p
CostEntry(p) == IF variant = "basic" THEN CostAt(p) ELSE OrZero(CostAt(p))

ProfitEntry(p) ==
    IF variant = "basic" THEN Some(RMul(Val(ProfitAt(p)), RInt(1000000)))
    ELSE OrZero(ProfitAt(p))

C7_SweepCoverage ==
    pc = "done" =>
      LET N == IF variant = "basic" THEN 29 ELSE 30
      IN  /\ Len(cost_totals) = N
          /\ Len(profit_totals) = N
          /\ \A k \in 1..N :
               /\ cost_totals[k] = CostEntry(k)
               /\ profit_totals[k] = ProfitEntry(k)

C7_Witness ==
    /\ pc = "done"
    /\ variant = "basic"
    /\ Len(cost_totals) = 29
    /\ cost_totals[1] # cost_totals[29]
    /\ profit_totals[1] # profit_totals[29]

\* C8: in the iteration for price p the primal and the dual are formulated
\* from the same cost vector (p for the first lot, the base costs elsewhere)
\* and the unchanged base constraints and requirements; the entries recorded
\* for p are a function of p and the base data alone.
C8_IterationInputs ==
    (SweepStarted /\ LatestPrice >= 1) =>
      LET p == LatestPrice
      IN  /\ constraints = base.constraints
          /\ requirements = base.requirements
          /\ heap[Val(primal).costs] = PricedCosts(p)
          /\ heap[Val(dual).requirements] = PricedCosts(p)
          /\ Val(primal).constraints = NegMat(base.constraints)
          /\ Val(primal).requirements = NegVec(base.requirements)
          /\ Val(dual).constraints = transpose(base.constraints)
          /\ Val(dual).costs = NegVec(base.requirements)
          /\ cost_totals[p] = CostEntry(p)
          /\ Len(profit_totals) = p => profit_totals[p] = ProfitEntry(p)

C8_Witness ==
    /\ pc = "sweep"
    /\ variant = "generalized"
    /\ price_idx = 3
    /\ Len(base.costs) = 2
    /\ base.costs[1] = 0
    /\ cost_totals[2] # cost_totals[3]
    /\ profit_totals[2] # profit_totals[3]

\* C21: study_sensitivity(costs, constraints, requirements) leaves the
\* caller's three inputs as they were: during the sweep and after it has
\* returned, costs[0] holds its original value and no other entry of costs,
\* constraints or requirements has changed.
C21_SensitivityLeavesInputs ==
    (variant = "generalized" /\ SweepStarted) =>
      /\ heap.costs = base.costs
      /\ constraints = base.constraints
      /\ requirements = base.requirements

\* the sweep has returned, and its last copy differs from the caller's costs
C21_Witness ==
    /\ variant = "generalized"
    /\ pc = "done"
    /\ Len(cost_totals) = 30
    /\ heap.modified_costs # heap.costs
    /\ heap.modified_costs[1] = 30

(***************************************************************************)
(* The two class pairs side by side (checked under Spec).                  *)
(***************************************************************************)
\* what solve() returns: the pairs (x, value)
Returned(results) == {<<r.x, r.value>> : r \in results}

\* C14: on every bundle PrimalProblem and GeneralizedPrimalProblem hold the
\* same coefficients and return the same result from solve, and so do
\* DualProblem and GeneralizedDualProblem.
C14_VariantsEquivalent ==
    /\ PrimalBuilt =>
         /\ Val(primal) = PrimalProblem_init("costs", constraints, requirements)
         /\ Val(primal) = GeneralizedPrimalProblem_init("costs", constraints,
                                                        requirements)
    /\ PrimalSolved =>
         /\ Returned(PrimalProblem_solve(Val(primal), heap))
              = Returned(GeneralizedPrimalProblem_solve(Val(primal), heap))
         /\ <<lots, cost_total>>
              \in Returned(PrimalProblem_solve(Val(primal), heap))
    /\ DualBuilt =>
         /\ Val(dual) = DualProblem_init("costs", constraints, requirements)
         /\ Val(dual) = GeneralizedDualProblem_init("costs", constraints,
                                                    requirements)
    /\ DualSolved =>
         /\ Returned(DualProblem_solve(Val(dual), heap))
              = Returned(GeneralizedDualProblem_solve(Val(dual), heap))
         /\ <<prices, profit>>
              \in Returned(DualProblem_solve(Val(dual), heap))

C14_Witness ==
    /\ DualSolved
    /\ variant = "generalized"
    /\ Len(base.costs) = 2
    /\ Len(requirements) = 2
    /\ lots # None
    /\ prices # None
    /\ Val(cost_total).n > 0
    /\ Val(profit).n > 0

\* C16: the primal sign conversion applied twice gives back exactly the
\* original constraint matrix and requirement vector.
C16_SignConversionRoundTrip ==
    PrimalBuilt =>
      LET once  == Val(primal)
          twice == NewPrimal(variant, once.costs, once.constraints,
                             once.requirements)
      IN  /\ once = NewPrimal(variant, once.costs, constraints, requirements)
          /\ twice.constraints = constraints
          /\ twice.requirements = requirements
          /\ twice.costs = once.costs

C16_Witness ==
    /\ PrimalBuilt
    /\ variant = "basic"
    /\ Len(base.costs) = 2
    /\ Len(requirements) = 2
    /\ \A i \in 1..2 : requirements[i] > 0 /\ constraints[i][i] > 0
    /\ Val(primal).requirements[1] < 0

(***************************************************************************)
(* Properties of the data-entry script (checked under InterfaceSpec).      *)
(***************************************************************************)
\* C15: every data bundle the script writes is dimension-consistent: each
\* constraint row has len(costs) entries, there are len(requirements) rows,
\* and as many weapon names as requirements.
C15_WrittenBundleConsistent ==
    data # None =>
      LET d == Val(data)
      IN  /\ \A i \in 1..Len(d.constraints) :
               Len(d.constraints[i]) = Len(d.costs)
          /\ Len(d.constraints) = Len(d.requirements)
          /\ Len(d.armes) = Len(d.requirements)

C15_Witness ==
    /\ pc = "written"
    /\ data # None
    /\ Len(Val(data).costs) = 2
    /\ Len(Val(data).requirements) = 2
    /\ Len(out) = 1

\* the words of a line: the maximal runs <<first, last>> of non-blank
\* characters
Words(line) ==
    {w \in (1..Len(line)) \X (1..Len(line)) :
       /\ w[1] <= w[2]
       /\ \A k \in w[1]..w[2] : line[k] # " "
       /\ w[1] = 1 \/ line[w[1] - 1] = " "
       /\ w[2] = Len(line) \/ line[w[2] + 1] = " "}

DigitOf(ch) == CHOOSE d \in 0..9 : <<"0", "1", "2", "3", "4", "5", "6", "7", "8", "9">>[d + 1] = ch

IsNumeral(line, w) ==
    \A k \in w[1]..w[2] :
      line[k] \in {"0", "1", "2", "3", "4", "5", "6", "7", "8", "9"}

\* the number a numeral denotes: digit k counts 10^(last - k)
RECURSIVE NumeralValue(_, _, _)
NumeralValue(line, k, last) ==
    IF k > last THEN 0
    ELSE DigitOf(line[k]) * Pow10(last - k) + NumeralValue(line, k + 1, last)

\* the line holds only numerals, and `length` of them when a length is given
WellFormedLine(line, length) ==
    /\ \A w \in Words(line) : IsNumeral(line, w)
    /\ length # None => Cardinality(Words(line)) = Val(length)

\* xs lists the values of the words of the line, left to right
ParsedFrom(xs, line) ==
    /\ Len(xs) = Cardinality(Words(line))
    /\ \A w \in Words(line) :
         xs[Cardinality({v \in Words(line) : v[1] <= w[1]})]
           = NumeralValue(line, w[1], w[2])

AskStates == {"ask_costs", "ask_row", "ask_requirements"}

\* what one prompt of ask_for_list must do with the line typed
AskedProperly ==
    pc \in AskStates =>
      LET a == Val(ask')
          r == Val(a.returned)
      IN  /\ ask' # None
          /\ a.length = (IF pc = "ask_costs" THEN None
                         ELSE IF pc = "ask_row" THEN Some(Len(heap.costs))
                         ELSE Some(n_constraints))
          /\ (a.returned # None) <=> WellFormedLine(a.line, a.length)
          /\ a.returned # None =>
               /\ ParsedFrom(r, a.line)
               /\ a.length # None => Len(r) = Val(a.length)
               /\ out' = out
               /\ pc = "ask_costs" => heap'.costs = r
               /\ pc = "ask_row" => constraints' = Append(constraints, r)
               /\ pc = "ask_requirements" => requirements' = r
          /\ a.returned = None =>
               /\ Len(out') = Len(out) + 1
               /\ pc' = pc
               /\ UNCHANGED <<heap, constraints, requirements, data>>

\* C17: on each line typed, ask_for_list returns exactly when the line is
\* well formed (numerals only, `length` of them when a length is given); it
\* then returns the values of that line, in order, and prints nothing;
\* otherwise it prints one error, returns nothing and prompts again.
C17_AskForList == [][AskedProperly]_vars

C17_Witness ==
    /\ ask # None
    /\ Val(ask).returned # None
    /\ Val(ask).length = Some(2)
    /\ Val(Val(ask).returned) = <<2, 2>>
    /\ Len(out) = 1
    /\ pc = "ask_name"

\* the price points of the sweep at which both trajectories hold a value
StoredPoints ==
    {k \in 1..Len(cost_totals) :
        /\ k <= Len(profit_totals)
        /\ cost_totals[k] # None
        /\ profit_totals[k] # None}

\* C19: at every price point of a sweep where both solves succeeded, the
\* cost trajectory and the profit trajectory hold values in the same unit:
\* the two arrays handed to the plot are equal point by point, in the basic
\* and in the generalized sweep.
C19_TrajectoriesSameUnit ==
    \A k \in StoredPoints : Val(cost_totals[k]) = Val(profit_totals[k])

(***************************************************************************)
(* Properties of a caller that assigns to its lists (checked under         *)
(* AliasSpec).                                                             *)
(***************************************************************************)
\* what primal.solve() hands to linprog, as solve() reads it
PrimalPassed ==
    IF primal = None THEN None
    ELSE Some([c    |-> heap[Val(primal).costs],
               A_ub |-> Val(primal).constraints,
               b_ub |-> Val(primal).requirements])

\* what dual.solve() hands to linprog
DualPassed ==
    IF dual = None THEN None
    ELSE Some([c    |-> Val(dual).costs,
               A_ub |-> Val(dual).constraints,
               b_ub |-> heap[Val(dual).requirements]])

CallerInputs == <<heap.costs, constraints, requirements>>

NoSharedState ==
    /\ (caller_sets_cost \/ caller_sets_constraint \/ caller_sets_requirement)
         => (PrimalPassed' = PrimalPassed /\ DualPassed' = DualPassed)
    /\ (ConstructPrimal \/ ConstructDual \/ test_dual)
         => CallerInputs' = CallerInputs

\* C20: a formulated primal or dual problem shares no mutable state with
\* its caller: an assignment to an entry of the caller's costs, constraints
\* or requirements after construction does not change the coefficients the
\* problem passes to the solver, and construction leaves the caller's three
\* inputs unchanged.
C20_NoSharedState == [][NoSharedState]_vars

(***************************************************************************)
(* Properties of the main flows (checked under MainSpec).                  *)
(***************************************************************************)
\* a solve of this run has returned (None, None): its diagnostic is in out
SolveFailed == out # <<>>

\* C18: a failed solve is not fatal for the caller: after a primal or dual
\* solve has returned (None, None), the main flow goes on through its
\* display and sweep steps and no exception is raised.
C18_FailedSolveNonFatal ==
    SolveFailed => (raised = "" /\ pc # "raised")

\* the comparative table has been printed, and the sweep that follows has
\* not yet replaced the results it was printed from
TableShown == shown.comparative # None /\ price_idx = 0

\* the primal cost over all n lots and the dual profit over all m weapon
\* types, for the results the main flow holds
FullCost == Dot(heap.costs, Val(lots))
FullProfit == Dot(requirements, Val(prices))

\* C22: for every number of lots n and of weapon types m, the totals printed
\* by display_comparative_table are the full primal cost (the sum of
\* lots[j]*costs[j] over all n lots) and the full dual profit (the sum of
\* prices[i]*requirements[i] over all m weapon types), and so agree with the
\* total printed by display_primal_solution and the total printed and
\* returned by display_dual_solution for the same data.
C22_ComparativeTotals ==
    TableShown =>
      LET table == Val(shown.comparative)
      IN  /\ table.total_cost = RoundTo(FullCost, 2)
          /\ table.total_benefit = RoundTo(FullProfit, 2)
          /\ table.total_cost = Val(shown.primal).total_cost
          /\ table.total_benefit = Val(shown.dual).total_profit
          /\ table.total_benefit = RoundTo(Val(shown.dual).returned, 2)

(***************************************************************************)
(* Properties of bundles of any shape (checked under MismatchSpec).        *)
(***************************************************************************)
\* the constraint matrix disagrees with the cost or requirement vector
DimensionMismatch ==
    \/ Len(constraints) # Len(requirements)
    \/ \E i \in 1..Len(constraints) : Len(constraints[i]) # Len(base.costs)

\* C11: a dimension mismatch is detected when the primal or the dual is
\* constructed, before any solve attempt: no problem object is ever
\* formulated from a mismatched bundle, and no solver call is reached with one.
C11_MismatchDetectedAtConstruction ==
    DimensionMismatch =>
      /\ primal = None
      /\ dual = None
      /\ raised # "ValueError"

(***************************************************************************)
(* Properties of bundles without lots (checked under EmptySpec).           *)
(***************************************************************************)
\* zero lots: the cost vector is empty
EmptyInput == Len(base.costs) = 0

\* C12: for an empty input (zero lots, with or without requirements) no
\* construction or solve raises, the primal solve returns (None, None) and
\* the dual solve returns (None, None).
C12_EmptyInputSentinel ==
    EmptyInput =>
      /\ raised = ""
      /\ pc # "raised"
      /\ PrimalSolved => (lots = None /\ cost_total = None)
      /\ DualSolved => (prices = None /\ profit = None)

(***************************************************************************)
(* Properties of scenario 1 (checked under ScenarioSpec).                  *)
(***************************************************************************)
RoundAll(x, k) == [j \in 1..Len(x) |-> RoundTo(x[j], k)]

\* both problems of scenario 1 proper (lot 1 at its listed price) are solved
Scenario1Solved == DualSolved /\ base.costs = scenario1_costs

\* the primal half of scenario 1: lots ~ [0, 8.6957, 121.7391], total cost
\* ~ 1930.4348
Scenario1Primal ==
    /\ lots # None
    /\ cost_total # None
    /\ RoundAll(Val(lots), 4) = <<0, 86957, 1217391>>
    /\ RoundTo(Val(cost_total), 4) = 19304348

\* C13 as stated: on scenario 1 the primal solve returns lots
\* ~ [0, 8.6957, 121.7391] with total cost ~ 1930.4348, and the dual solve
\* returns unit prices ~ [10434.7826, 4434.7826, 0, 0, 0] with profit
\* ~ 1930.4348.
C13_Scenario1AsStated ==
    Scenario1Solved =>
      /\ Scenario1Primal
      /\ prices # None
      /\ profit # None
      /\ RoundAll(Val(prices), 4) = <<104347826, 44347826, 0, 0, 0>>
      /\ RoundTo(Val(profit), 4) = 19304348

\* C13, amended: on scenario 1 the primal solve returns lots
\* ~ [0, 8.6957, 121.7391] with total cost ~ 1930.4348, and the dual solve
\* returns unit prices ~ [0.01043478, 0.00443478, 0, 0, 0] (which are
\* 10434.7826 and 4434.7826 once multiplied by 1,000,000, as the display
\* does) with profit ~ 1930.4348.
C13_Scenario1Values ==
    Scenario1Solved =>
      /\ Scenario1Primal
      /\ prices # None
      /\ profit # None
      /\ RoundAll(Val(prices), 8) = <<1043478, 443478, 0, 0, 0>>
      /\ RoundAll([i \in 1..Len(Val(prices)) |->
                     RMul(Val(prices)[i], RInt(1000000))], 4)
           = <<104347826, 44347826, 0, 0, 0>>
      /\ RoundTo(Val(profit), 4) = 19304348

C13_Witness ==
    /\ Scenario1Solved
    /\ variant = "basic"
    /\ lots # None
    /\ prices # None
    /\ Val(prices)[1].n > 0

====
